---- MODULE Spec2Model ----
(***************************************************************************)
(* lazyfile: the key-event state machine of the terminal client.           *)
(*                                                                         *)
(* The model follows src/src/app/handler.rs (Handler), src/src/launcher.rs *)
(* (start, run_app), src/src/ui/widgets/login_modal.rs (LoginModal) and    *)
(* src/src/auth (Credentials, AuthManager).  App (app/state.rs), the       *)
(* Confirm and Create/Edit modals (ui) and the rclone client (rclone) are  *)
(* not among the source files; their operations are modelled from the      *)
(* specification's sections 3, 4 and 6.                                    *)
(*                                                                         *)
(* Rust values: a String is a sequence of one-character strings, an        *)
(* Option is a sequence of length 0 (None) or 1 (Some), a Vec is a         *)
(* sequence and a Vec index is 0-based as in the code.  An operation that  *)
(* awaits the daemon is a set of possible results, one per daemon reply.   *)
(***************************************************************************)
EXTENDS Integers, Sequences, FiniteSets, TLC

\* ----------------------------------------------------------------- bounds

\* Longest text a modal field is typed to.
MaxField == 1

\* Deepest current_path, in '/'-delimited segments, that Enter is explored to.
MaxDepth == 2

\* Characters that are typed into modal text fields.
TextChars == {"a"}

\* Characters of the keyboard that are explored as Char keys.
Chars == {"q", "a", "d", "e", "j", "k", "y", "n", "l", "x"}

\* Remote names the daemon reports.
RemoteNames == {<<"a">>, <<"s">>}

\* Directory entries the daemon reports: leaf names, a directory and a file.
Entries ==
    { [name |-> <<"a", "b">>, is_dir |-> TRUE],
      [name |-> <<"c">>, is_dir |-> FALSE] }

\* ------------------------------------------------------------ Rust values

None == <<>>

Some(x) == <<x>>

IsSome(o) == Len(o) = 1

Unwrap(o) == o[1]

\* Vec::get with a 0-based index.
Get(v, i) == IF i < Len(v) THEN Some(v[i + 1]) ELSE None

\* String::pop / String::push.
Pop(s) == IF Len(s) = 0 THEN s ELSE SubSeq(s, 1, Len(s) - 1)

Push(s, c) == Append(s, c)

\* Sequences of distinct elements of S, of length at most n.
RECURSIVE DistinctSeqs(_, _)
DistinctSeqs(S, n) ==
    IF n = 0 THEN {<<>>}
    ELSE LET shorter == DistinctSeqs(S, n - 1)
             longer == {Append(q, x) : q \in shorter, x \in S}
         IN shorter \cup
            {q \in longer : \A i, j \in 1..Len(q) : i # j => q[i] # q[j]}

\* ------------------------------------------------------------ credentials

\* Credentials::basic
basic(username, password, remote) ==
    [auth_type |-> "Basic", username |-> username, password |-> password,
     remote |-> remote]

\* Credentials::bearer
bearer(token, remote) ==
    [auth_type |-> "Bearer", username |-> <<>>, password |-> token,
     remote |-> remote]

\* Credentials::keyring_key: format!("lazyfile-{}", remote) or "lazyfile-daemon".
KeyPrefix == <<"l", "a", "z", "y", "f", "i", "l", "e", "-">>

keyring_key(credentials) ==
    IF IsSome(credentials.remote)
    THEN KeyPrefix \o Unwrap(credentials.remote)
    ELSE KeyPrefix \o <<"d", "a", "e", "m", "o", "n">>

\* AuthManager::new
AuthManager_new(auth_mode) ==
    [daemon_credentials |-> None, remote_credentials |-> {},
     auth_mode |-> auth_mode]

\* The keyring is a set of <<key, value>> entries, one per key.
\* AuthManager::store_in_keyring: the keyring write succeeds (stored = TRUE)
\* and the entry under the credential's key is replaced, or it fails and
\* the keyring is as before.
store_in_keyring(keyring, credentials, stored) ==
    IF stored
    THEN [keyring |->
              {e \in keyring : e[1] # keyring_key(credentials)} \cup
              {<<keyring_key(credentials), credentials>>},
          res |-> "Ok"]
    ELSE [keyring |-> keyring, res |-> "Keyring"]

\* AuthManager::set_daemon_credentials: a failed keyring write is logged,
\* the credentials are kept in memory either way, and the result is Ok.
set_daemon_credentials(auth_manager, keyring, credentials, stored) ==
    LET w == store_in_keyring(keyring, credentials, stored)
    IN [auth_manager |->
            [auth_manager EXCEPT !.daemon_credentials = Some(credentials)],
        keyring |-> w.keyring,
        res |-> "Ok"]

\* remote_credentials is a HashMap<String, Credentials>: a set of
\* <<remote, credentials>> entries, one per remote.  HashMap::insert / get.
insert(map, k, v) == {e \in map : e[1] # k} \cup {<<k, v>>}

get(map, k) ==
    IF \E e \in map : e[1] = k
    THEN Some((CHOOSE e \in map : e[1] = k)[2])
    ELSE None

\* set_remote_credentials that gives up when the keyring write fails.
set_remote_credentials_OnlyIfStored(auth_manager, keyring, remote, credentials, stored) ==
    LET w == store_in_keyring(keyring, credentials, stored)
    IN IF stored
       THEN [auth_manager |->
                 [auth_manager EXCEPT !.remote_credentials =
                     insert(@, remote, credentials)],
             keyring |-> w.keyring,
             res |-> "Ok"]
       ELSE [auth_manager |-> auth_manager, keyring |-> keyring,
             res |-> w.res]

\* AuthManager::set_remote_credentials: as set_daemon_credentials, with the
\* credentials kept under the remote's name.
set_remote_credentials(auth_manager, keyring, remote, credentials, stored) ==
    LET w == store_in_keyring(keyring, credentials, stored)
    IN [auth_manager |->
            [auth_manager EXCEPT !.remote_credentials =
                insert(@, remote, credentials)],
        keyring |-> w.keyring,
        res |-> "Ok"]

\* should_require_auth_on_startup that knows the mode Both only.
should_require_auth_on_startup_BothOnly(auth_manager) ==
    auth_manager.auth_mode = "Both"

\* AuthManager::should_require_auth_on_startup
should_require_auth_on_startup(auth_manager) ==
    auth_manager.auth_mode \in {"RequireOnStartup", "Both"}

\* ------------------------------------------------------------ Login modal

\* LoginModal::new_basic
new_basic ==
    [auth_type |-> "Basic", username |-> <<>>, password |-> <<>>,
     focus_field |-> "Username", error |-> None, is_password_masked |-> TRUE]

\* LoginModal::new_bearer
new_bearer ==
    [auth_type |-> "Bearer", username |-> <<>>, password |-> <<>>,
     focus_field |-> "Token", error |-> None, is_password_masked |-> FALSE]

\* LoginModal::next_field
Login_next_field(m) ==
    [m EXCEPT !.focus_field =
        IF m.auth_type = "Basic"
        THEN CASE m.focus_field = "Username" -> "Password"
               [] m.focus_field = "Password" -> "Username"
               [] m.focus_field = "Token" -> "Username"
        ELSE "Token"]

\* prev_field that does not move the focus.
Login_prev_field_Stay(m) == m

\* LoginModal::prev_field
Login_prev_field(m) ==
    [m EXCEPT !.focus_field =
        IF m.auth_type = "Basic"
        THEN CASE m.focus_field = "Username" -> "Password"
               [] m.focus_field = "Password" -> "Username"
               [] m.focus_field = "Token" -> "Password"
        ELSE "Token"]

\* input_char that always writes the username.
Login_input_char_Username(m, c) == [m EXCEPT !.username = Push(m.username, c)]

\* LoginModal::input_char
Login_input_char(m, c) ==
    IF m.focus_field = "Username"
    THEN [m EXCEPT !.username = Push(m.username, c)]
    ELSE [m EXCEPT !.password = Push(m.password, c)]

\* LoginModal::backspace
Login_backspace(m) ==
    IF m.focus_field = "Username"
    THEN [m EXCEPT !.username = Pop(m.username)]
    ELSE [m EXCEPT !.password = Pop(m.password)]

\* is_valid that asks for the username only.
Login_is_valid_UsernameOnly(m) ==
    IF m.auth_type = "Basic" THEN m.username # <<>> ELSE TRUE

\* LoginModal::is_valid
Login_is_valid(m) ==
    IF m.auth_type = "Basic"
    THEN m.username # <<>> /\ m.password # <<>>
    ELSE m.password # <<>>

\* LoginModal::toggle_password_visibility
toggle_password_visibility(m) ==
    [m EXCEPT !.is_password_masked = ~m.is_password_masked]

\* ---------------------------------------------------------- Confirm modal

\* ConfirmModal::new: the choice starts on the not-confirmed side.
ConfirmModal_new == [confirmed |-> FALSE]

\* ConfirmModal::toggle
Confirm_toggle(m) == [m EXCEPT !.confirmed = ~m.confirmed]

\* ConfirmModal::is_confirmed
is_confirmed(m) == m.confirmed

\* ------------------------------------------------------ Create/Edit modal

\* CreateRemoteModal::new
CreateRemoteModal_new(mode) ==
    [mode |-> mode, name |-> <<>>, remote_type |-> <<>>, path |-> <<>>,
     focus_field |-> "Name", error |-> None]

\* CreateRemoteModal::with_name / with_type
with_name(m, name) == [m EXCEPT !.name = name]

with_type(m, remote_type) == [m EXCEPT !.remote_type = remote_type]

\* CreateRemoteModal::next_field / prev_field
Create_next_field(m) ==
    [m EXCEPT !.focus_field =
        CASE m.focus_field = "Name" -> "Type"
          [] m.focus_field = "Type" -> "Path"
          [] m.focus_field = "Path" -> "Name"]

Create_prev_field(m) ==
    [m EXCEPT !.focus_field =
        CASE m.focus_field = "Name" -> "Path"
          [] m.focus_field = "Type" -> "Name"
          [] m.focus_field = "Path" -> "Type"]

\* The text of the focused field.
Create_focused(m) ==
    CASE m.focus_field = "Name" -> m.name
      [] m.focus_field = "Type" -> m.remote_type
      [] m.focus_field = "Path" -> m.path

\* CreateRemoteModal::input_char / backspace: on the focused field.
Create_input_char(m, c) ==
    CASE m.focus_field = "Name" -> [m EXCEPT !.name = Push(m.name, c)]
      [] m.focus_field = "Type" ->
            [m EXCEPT !.remote_type = Push(m.remote_type, c)]
      [] m.focus_field = "Path" -> [m EXCEPT !.path = Push(m.path, c)]

Create_backspace(m) ==
    CASE m.focus_field = "Name" -> [m EXCEPT !.name = Pop(m.name)]
      [] m.focus_field = "Type" ->
            [m EXCEPT !.remote_type = Pop(m.remote_type)]
      [] m.focus_field = "Path" -> [m EXCEPT !.path = Pop(m.path)]

\* CreateRemoteModal::is_valid: name and type are not empty.
Create_is_valid(m) == m.name # <<>> /\ m.remote_type # <<>>

\* ------------------------------------------------------- the rclone client

\* LazyFileError kinds a daemon call fails with: Unauthorized (401) or any
\* other failure.
ErrorKinds == {"Unauthorized", "Other"}

\* A daemon call as the client issued it, with its outcome.
Call(op, arg, out) == [op |-> op, arg |-> arg, out |-> out]

\* Lists list_remotes may answer with.
RemoteLists == DistinctSeqs(RemoteNames, Cardinality(RemoteNames))

\* Listings list_directory may answer with.
FileLists == DistinctSeqs(Entries, Cardinality(Entries))

\* RcloneClient::list_remotes: the daemon's possible replies.
list_remotes ==
    {[res |-> "Ok", val |-> l] : l \in RemoteLists} \cup
    {[res |-> e, val |-> <<>>] : e \in ErrorKinds}

\* RcloneClient::list_files(remote, path): the daemon's possible replies.
list_files ==
    {[res |-> "Ok", val |-> l] : l \in FileLists} \cup
    {[res |-> e, val |-> <<>>] : e \in ErrorKinds}

\* create_remote, update_remote, delete_remote: unit or a failure.
UnitReplies == {"Ok"} \cup ErrorKinds

\* The type the daemon has configured for a remote (config of the remote).
remote_type_of(name) ==
    IF name = <<"a">> THEN <<"l", "o", "c", "a", "l">> ELSE <<"s", "3">>

\* RcloneClient::set_credentials / clear_credentials
set_credentials(client, credentials) ==
    [client EXCEPT !.credentials = Some(credentials)]

clear_credentials(client) == [client EXCEPT !.credentials = None]

\* Item::is_dir / Item::name
is_dir(item) == item.is_dir

name_of(item) == item.name

\* -------------------------------------------------------------------- App

\* What an operation on the App returns: the App after it, its Result (Ok
\* or the error kind) and the daemon calls it issued, in order.
R(a, res, calls) == [app |-> a, res |-> res, calls |-> calls]

\* App::new
App_new(client, auth_manager) ==
    [running |-> TRUE,
     focused_panel |-> "Remotes",
     remotes |-> <<>>,
     remotes_selected |-> 0,
     current_remote |-> None,
     current_path |-> <<>>,
     files |-> <<>>,
     files_selected |-> 0,
     login_modal |-> None,
     confirm_modal |-> None,
     create_remote_modal |-> None,
     pending_delete_remote |-> None,
     client |-> client,
     auth_manager |-> auth_manager]

\* A selection clamped to a list of the given length.
Clamp(sel, len) ==
    IF len = 0 THEN 0 ELSE IF sel >= len THEN len - 1 ELSE sel

\* load_remotes that keeps the selection as it was.
load_remotes_NoClamp(a) ==
    { IF r.res = "Ok"
      THEN R([a EXCEPT !.remotes = r.val],
             "Ok", <<Call("list_remotes", <<>>, "Ok")>>)
      ELSE R(a, r.res, <<Call("list_remotes", <<>>, r.res)>>)
      : r \in list_remotes }

\* App::load_remotes: on success the list is replaced and the selection
\* clamped to it; on failure the App is unchanged and the error returned.
load_remotes(a) ==
    { IF r.res = "Ok"
      THEN R([a EXCEPT !.remotes = r.val,
                       !.remotes_selected = Clamp(@, Len(r.val))],
             "Ok", <<Call("list_remotes", <<>>, "Ok")>>)
      ELSE R(a, r.res, <<Call("list_remotes", <<>>, r.res)>>)
      : r \in list_remotes }

\* App::load_files: lists current_path of current_remote; without a current
\* remote there is nothing to list.
load_files(a) ==
    IF a.current_remote = None
    THEN {R(a, "Ok", <<>>)}
    ELSE { IF r.res = "Ok"
           THEN R([a EXCEPT !.files = r.val,
                            !.files_selected = Clamp(@, Len(r.val))],
                  "Ok", <<Call("list_files", a.current_path, "Ok")>>)
           ELSE R(a, r.res, <<Call("list_files", a.current_path, r.res)>>)
           : r \in list_files }

\* App::navigate_down / navigate_up: the selection of the focused list
\* moves by one and stays within the list.
navigate_down(a) ==
    IF a.focused_panel = "Remotes"
    THEN IF a.remotes_selected + 1 < Len(a.remotes)
         THEN [a EXCEPT !.remotes_selected = @ + 1] ELSE a
    ELSE IF a.files_selected + 1 < Len(a.files)
         THEN [a EXCEPT !.files_selected = @ + 1] ELSE a

navigate_up(a) ==
    IF a.focused_panel = "Remotes"
    THEN IF a.remotes_selected > 0
         THEN [a EXCEPT !.remotes_selected = @ - 1] ELSE a
    ELSE IF a.files_selected > 0
         THEN [a EXCEPT !.files_selected = @ - 1] ELSE a

\* App::switch_panel
switch_panel(a) ==
    [a EXCEPT !.focused_panel = IF @ = "Remotes" THEN "Files" ELSE "Remotes"]

\* ---------------------------------------------------------------- Handler

\* str::rfind(c): the 0-based index of the last c, if any.
rfind(s, c) ==
    LET at == {i \in 1..Len(s) : s[i] = c}
    IN IF at = {} THEN None
       ELSE Some((CHOOSE i \in at : \A j \in at : j <= i) - 1)

\* String::truncate(new_len)
truncate(s, new_len) == SubSeq(s, 1, new_len)

\* format!("/{}", name) and format!("{}/{}", path, name)
JoinPath(path, name) ==
    IF path = <<>> THEN <<"/">> \o name ELSE path \o <<"/">> \o name

\* Going up that clears the whole path.
ParentPath_Clear(path) == <<>>

\* The path with its last '/'-delimited segment removed: truncated at the
\* last '/', cleared when it holds none.
ParentPath(path) ==
    IF IsSome(rfind(path, "/"))
    THEN truncate(path, Unwrap(rfind(path, "/")))
    ELSE <<>>

\* The remote type the Edit modal is pre-filled with: "local".
LocalType == <<"l", "o", "c", "a", "l">>

\* The rejection that leaves the taken modal closed.
modal_rejected_Dropped(taken, modal) == taken

\* Handler::handle_modal_submit, !modal.is_valid(): the taken modal is put
\* back with the error set and every other field as it was.
modal_rejected(taken, modal) ==
    [taken EXCEPT !.create_remote_modal =
        Some([modal EXCEPT !.error = Some(<<"Name and Type are required">>)])]

\* The failure arm that puts back an empty form of the same mode.
modal_failed_FreshForm(taken, modal, e) ==
    [taken EXCEPT !.create_remote_modal =
        Some([CreateRemoteModal_new(modal.mode) EXCEPT !.error =
                 Some(<<"Error: ", e>>)])]

\* Handler::handle_modal_submit, Err(e) of create_remote / update_remote:
\* the taken modal is put back with the failure as its error.
modal_failed(taken, modal, e) ==
    [taken EXCEPT !.create_remote_modal =
        Some([modal EXCEPT !.error = Some(<<"Error: ", e>>)])]

\* The mutation that is create_remote in either mode.
mutation_AlwaysCreate(mode) == "create_remote"

\* Handler::handle_modal_submit, match mode: the daemon mutation of a mode.
mutation(mode) ==
    IF mode = "Create" THEN "create_remote" ELSE "update_remote"

\* Handler::handle_modal_submit
handle_modal_submit(a) ==
    LET modal == Unwrap(a.create_remote_modal)
        taken == [a EXCEPT !.create_remote_modal = None]
        op == mutation(modal.mode)
    IN IF ~Create_is_valid(modal)
       THEN {R(modal_rejected(taken, modal), "Ok", <<>>)}
       ELSE UNION {
              IF u # "Ok"
              THEN {R(modal_failed(taken, modal, u), "Ok",
                      <<Call(op, modal.name, u)>>)}
              ELSE {R(r.app, r.res, <<Call(op, modal.name, u)>> \o r.calls)
                    : r \in load_remotes(taken)}
              : u \in UnitReplies }

\* Handler::handle_modal_key
handle_modal_key(a, key) ==
    LET modal == Unwrap(a.create_remote_modal)
    IN CASE key.code = "Esc" ->
              {R([a EXCEPT !.create_remote_modal = None], "Ok", <<>>)}
         [] key.code = "Tab" ->
              {R([a EXCEPT !.create_remote_modal =
                     Some(Create_next_field(modal))], "Ok", <<>>)}
         [] key.code = "BackTab" ->
              {R([a EXCEPT !.create_remote_modal =
                     Some(Create_prev_field(modal))], "Ok", <<>>)}
         [] key.code = "Char" ->
              {R([a EXCEPT !.create_remote_modal =
                     Some([Create_input_char(modal, key.ch)
                              EXCEPT !.error = None])], "Ok", <<>>)}
         [] key.code = "Backspace" ->
              {R([a EXCEPT !.create_remote_modal =
                     Some([Create_backspace(modal) EXCEPT !.error = None])],
                 "Ok", <<>>)}
         [] key.code = "Enter" -> handle_modal_submit(a)
         [] OTHER -> {R(a, "Ok", <<>>)}

\* handle_delete_remote that takes the first remote, not the selected one.
handle_delete_remote_First(a) ==
    IF a.remotes # <<>>
    THEN [a EXCEPT !.pending_delete_remote = Some(a.remotes[1]),
                   !.confirm_modal = Some(ConfirmModal_new)]
    ELSE a

\* Handler::handle_delete_remote
handle_delete_remote(a) ==
    LET remote == Get(a.remotes, a.remotes_selected)
    IN IF IsSome(remote)
       THEN [a EXCEPT !.pending_delete_remote = Some(Unwrap(remote)),
                      !.confirm_modal = Some(ConfirmModal_new)]
       ELSE a

\* The Enter arm that closes the modal before it calls the daemon.
handle_confirm_enter_CloseFirst(a) ==
    LET closed == [a EXCEPT !.confirm_modal = None]
    IN IF is_confirmed(Unwrap(a.confirm_modal))
            /\ IsSome(a.pending_delete_remote)
       THEN LET remote == Unwrap(a.pending_delete_remote)
                taken == [closed EXCEPT !.pending_delete_remote = None]
            IN UNION {
                 IF u # "Ok"
                 THEN {R(taken, u, <<Call("delete_remote", remote, u)>>)}
                 ELSE {R(r.app, r.res,
                         <<Call("delete_remote", remote, u)>> \o r.calls)
                       : r \in load_remotes(taken)}
                 : u \in UnitReplies }
       ELSE {R(closed, "Ok", <<>>)}

\* Handler::handle_confirm_key, the Enter arm: a delete_remote or
\* load_remotes failure returns through `?` before the modal is closed.
handle_confirm_enter(a) ==
    LET modal == Unwrap(a.confirm_modal)
    IN IF is_confirmed(modal) /\ IsSome(a.pending_delete_remote)
       THEN LET remote == Unwrap(a.pending_delete_remote)
                taken == [a EXCEPT !.pending_delete_remote = None]
            IN UNION {
                 IF u # "Ok"
                 THEN {R(taken, u, <<Call("delete_remote", remote, u)>>)}
                 ELSE { IF r.res # "Ok"
                        THEN R(r.app, r.res,
                               <<Call("delete_remote", remote, u)>>
                                   \o r.calls)
                        ELSE R([r.app EXCEPT !.confirm_modal = None], "Ok",
                               <<Call("delete_remote", remote, u)>>
                                   \o r.calls)
                        : r \in load_remotes(taken) }
                 : u \in UnitReplies }
       ELSE {R([a EXCEPT !.confirm_modal = None], "Ok", <<>>)}

\* The 'y' / 'n' arm that toggles on every press.
confirm_choose_AlwaysToggle(modal, c) == Confirm_toggle(modal)

\* Handler::handle_confirm_key, the 'y' / 'n' arm: the choice is toggled
\* only when the key asks for the other side.
confirm_choose(modal, c) ==
    IF (c = "y") # is_confirmed(modal) THEN Confirm_toggle(modal) ELSE modal

\* The Esc arm that forgets the pending name and leaves the modal open.
confirm_cancel_KeepOpen(a) == [a EXCEPT !.pending_delete_remote = None]

\* Handler::handle_confirm_key, KeyCode::Esc: the modal is closed and the
\* pending name discarded.
confirm_cancel(a) ==
    [a EXCEPT !.confirm_modal = None, !.pending_delete_remote = None]

\* Handler::handle_confirm_key
handle_confirm_key(a, key) ==
    LET modal == Unwrap(a.confirm_modal)
    IN CASE key.code = "Esc" -> {R(confirm_cancel(a), "Ok", <<>>)}
         [] key.code \in {"Tab", "Right", "Left"} ->
              {R([a EXCEPT !.confirm_modal = Some(Confirm_toggle(modal))],
                 "Ok", <<>>)}
         [] key.code = "Char" /\ key.ch \in {"y", "n"} ->
              {R([a EXCEPT !.confirm_modal =
                     Some(confirm_choose(modal, key.ch))], "Ok", <<>>)}
         [] key.code = "Enter" -> handle_confirm_enter(a)
         [] OTHER -> {R(a, "Ok", <<>>)}

\* Handler::handle_edit_remote
handle_edit_remote(a) ==
    LET remote == Get(a.remotes, a.remotes_selected)
    IN IF IsSome(remote)
       THEN [a EXCEPT !.create_remote_modal =
                Some(with_type(with_name(CreateRemoteModal_new("Edit"),
                                         Unwrap(remote)), LocalType))]
       ELSE a

\* The Unauthorized arm without the rollback of current_remote.
enter_remote_unauthorized_NoRollback(a) ==
    [a EXCEPT !.login_modal = Some(new_basic)]

\* Handler::handle_enter, Panel::Remotes, Err(Unauthorized): the Login modal
\* opens and current_remote is rolled back.
enter_remote_unauthorized(a) ==
    [a EXCEPT !.login_modal = Some(new_basic), !.current_remote = None]

\* The Unauthorized arm that clears the path instead of reverting it.
enter_dir_unauthorized_ClearPath(a) ==
    [a EXCEPT !.login_modal = Some(new_basic), !.current_path = <<>>]

\* Handler::handle_enter, Panel::Files, Err(Unauthorized): the Login modal
\* opens and the path change is reverted.
enter_dir_unauthorized(a) ==
    [a EXCEPT !.login_modal = Some(new_basic),
              !.current_path = ParentPath(@)]

\* Handler::handle_enter, Panel::Remotes arm
handle_enter_remotes(a) ==
    LET remote == Get(a.remotes, a.remotes_selected)
        entered == [a EXCEPT !.current_remote = Some(Unwrap(remote)),
                             !.current_path = <<>>]
    IN IF IsSome(remote)
       THEN { CASE r.res = "Ok" ->
                     R([r.app EXCEPT !.focused_panel = "Files"], "Ok",
                       r.calls)
                [] r.res = "Unauthorized" ->
                     R(enter_remote_unauthorized(r.app), "Ok", r.calls)
                [] OTHER -> R(r.app, r.res, r.calls)
              : r \in load_files(entered) }
       ELSE {R(a, "Ok", <<>>)}

\* Handler::handle_enter, Panel::Files arm
handle_enter_files(a) ==
    LET item == Get(a.files, a.files_selected)
        opened == [a EXCEPT !.current_path =
                      JoinPath(a.current_path, name_of(Unwrap(item)))]
    IN IF IsSome(item) /\ is_dir(Unwrap(item))
       THEN { CASE r.res = "Ok" -> R(r.app, "Ok", r.calls)
                [] r.res = "Unauthorized" ->
                     R(enter_dir_unauthorized(r.app), "Ok", r.calls)
                [] OTHER -> R(r.app, r.res, r.calls)
              : r \in load_files(opened) }
       ELSE {R(a, "Ok", <<>>)}

\* Handler::handle_enter
handle_enter(a) ==
    IF a.focused_panel = "Remotes" THEN handle_enter_remotes(a)
    ELSE handle_enter_files(a)

\* Going back that leaves the remote current.
back_to_remotes_KeepRemote(a) ==
    [a EXCEPT !.focused_panel = "Remotes", !.files = <<>>]

\* Handler::handle_backspace, Panel::Files with an empty current_path: back
\* to the remotes.
back_to_remotes(a) ==
    [a EXCEPT !.current_remote = None,
              !.focused_panel = "Remotes",
              !.files = <<>>]

\* Handler::handle_backspace
handle_backspace(a) ==
    IF a.focused_panel = "Files"
    THEN IF a.current_path # <<>>
         THEN load_files([a EXCEPT !.current_path = ParentPath(@)])
         ELSE {R(back_to_remotes(a), "Ok", <<>>)}
    ELSE {R(a, "Ok", <<>>)}

\* What the login path returns: R and the keyring after it.
RK(r, keyring) ==
    [app |-> r.app, res |-> r.res, calls |-> r.calls, keyring |-> keyring,
     store |-> "none"]

\* The same after a keyring write was attempted: store is the outcome of
\* store_in_keyring, "Ok" or "Keyring" (the write failed).
RKS(r, keyring, store) == [RK(r, keyring) EXCEPT !.store = store]

\* The probe's Err(e) arm that leaves the credentials on the client.
login_probe_failed_KeepCredentials(a, e) ==
    [a EXCEPT !.login_modal =
                  Some([Unwrap(a.login_modal) EXCEPT !.error =
                           Some(<<"Authentication failed: ", e>>)])]

\* Handler::handle_login_submit, the probe's Err(e) arm: the error is shown
\* in the modal and the client's credentials are cleared.
login_probe_failed(a, e) ==
    [a EXCEPT !.login_modal =
                  Some([Unwrap(a.login_modal) EXCEPT !.error =
                           Some(<<"Authentication failed: ", e>>)]),
              !.client = clear_credentials(@)]

\* Handler::handle_login_submit
handle_login_submit(a, keyring) ==
    LET modal == Unwrap(a.login_modal)
        credentials ==
            IF modal.auth_type = "Basic"
            THEN basic(modal.username, modal.password, None)
            ELSE bearer(modal.password, None)
        installed == [a EXCEPT !.client = set_credentials(@, credentials)]
    IN IF ~Login_is_valid(modal)
       THEN {RK(R([a EXCEPT !.login_modal =
                      Some([modal EXCEPT !.error =
                          Some(<<"All fields are required">>)])],
                  "Ok", <<>>), keyring)}
       ELSE UNION {
              LET s == set_daemon_credentials(installed.auth_manager,
                                              keyring, credentials, stored)
                  w == store_in_keyring(keyring, credentials, stored).res
                  managed == [installed EXCEPT !.auth_manager =
                                 s.auth_manager]
              IN IF s.res # "Ok"
                 THEN {RKS(R([managed EXCEPT !.login_modal =
                                 Some([modal EXCEPT !.error =
                                     Some(<<"Failed to save credentials: ",
                                            s.res>>)])],
                             "Ok", <<>>), s.keyring, w)}
                 ELSE { IF r.res = "Ok"
                        THEN RKS(R([r.app EXCEPT !.login_modal = None], "Ok",
                                   r.calls), s.keyring, w)
                        ELSE RKS(R(login_probe_failed(r.app, r.res), "Ok",
                                   r.calls), s.keyring, w)
                        : r \in load_remotes(managed) }
              : stored \in BOOLEAN }

\* Handler::handle_login_key
handle_login_key(a, keyring, key) ==
    LET modal == Unwrap(a.login_modal)
        same(b) == {RK(R(b, "Ok", <<>>), keyring)}
    IN CASE key.code = "Esc" -> same([a EXCEPT !.login_modal = None])
         [] key.code = "Tab" ->
              same([a EXCEPT !.login_modal = Some(Login_next_field(modal))])
         [] key.code = "BackTab" ->
              same([a EXCEPT !.login_modal = Some(Login_prev_field(modal))])
         [] key.code = "Char" /\ key.ch = "l"
                /\ modal.focus_field = "Password" ->
              same([a EXCEPT !.login_modal =
                       Some(toggle_password_visibility(modal))])
         [] key.code = "Char" ->
              same([a EXCEPT !.login_modal =
                       Some([Login_input_char(modal, key.ch)
                                EXCEPT !.error = None])])
         [] key.code = "Backspace" ->
              same([a EXCEPT !.login_modal =
                       Some([Login_backspace(modal) EXCEPT !.error = None])])
         [] key.code = "Enter" -> handle_login_submit(a, keyring)
         [] OTHER -> same(a)

\* The quit arm that leaves the App running.
quit_StillRunning(a) == a

\* Handler::handle_key, KeyCode::Char('q'): app.running = false.
quit(a) == [a EXCEPT !.running = FALSE]

\* Handler::handle_key, the arms taken when no modal is open.
handle_panel_key(a, key) ==
    CASE key.code = "Char" /\ key.ch = "q" -> {R(quit(a), "Ok", <<>>)}
      [] key.code = "Char" /\ key.ch = "a" /\ a.focused_panel = "Remotes" ->
           {R([a EXCEPT !.create_remote_modal =
                  Some(CreateRemoteModal_new("Create"))], "Ok", <<>>)}
      [] key.code = "Char" /\ key.ch = "d" /\ a.focused_panel = "Remotes" ->
           {R(handle_delete_remote(a), "Ok", <<>>)}
      [] key.code = "Char" /\ key.ch = "e" /\ a.focused_panel = "Remotes" ->
           {R(handle_edit_remote(a), "Ok", <<>>)}
      [] (key.code = "Char" /\ key.ch = "j") \/ key.code = "Down" ->
           {R(navigate_down(a), "Ok", <<>>)}
      [] (key.code = "Char" /\ key.ch = "k") \/ key.code = "Up" ->
           {R(navigate_up(a), "Ok", <<>>)}
      [] key.code = "Tab" -> {R(switch_panel(a), "Ok", <<>>)}
      [] key.code = "Enter" -> handle_enter(a)
      [] key.code = "Backspace" -> handle_backspace(a)
      [] OTHER -> {R(a, "Ok", <<>>)}

\* Route without the check for an open Confirm modal.
Route_NoConfirmCheck(a) ==
    IF IsSome(a.login_modal) THEN "login"
    ELSE IF IsSome(a.create_remote_modal) THEN "create"
    ELSE "panel"

\* Route without the check for an open Create/Edit modal.
Route_NoCreateCheck(a) ==
    IF IsSome(a.login_modal) THEN "login"
    ELSE IF IsSome(a.confirm_modal) THEN "confirm"
    ELSE "panel"

\* The handler a key is routed to: the Login modal first, then the Confirm
\* modal, then the Create/Edit modal, then the panels.
Route(a) ==
    IF IsSome(a.login_modal) THEN "login"
    ELSE IF IsSome(a.confirm_modal) THEN "confirm"
    ELSE IF IsSome(a.create_remote_modal) THEN "create"
    ELSE "panel"

\* Handler::handle_key
handle_key(a, keyring, key) ==
    CASE Route(a) = "login" -> handle_login_key(a, keyring, key)
      [] Route(a) = "confirm" ->
           {RK(r, keyring) : r \in handle_confirm_key(a, key)}
      [] Route(a) = "create" ->
           {RK(r, keyring) : r \in handle_modal_key(a, key)}
      [] OTHER -> {RK(r, keyring) : r \in handle_panel_key(a, key)}

\* ------------------------------------------------------------ the program

VARIABLES
    app,        \* the App that launcher::start owns
    keyring,    \* the system keyring (the Credential Store)
    pc,         \* "start": before launcher::start's initial load;
                \* "loop": in run_app's loop; "exit": start has returned
    route,      \* the handler the last key was routed to ("none": no key yet)
    calls,      \* the daemon calls of the last step, with their outcomes
    result      \* the Result of the last step: "Ok" or the error kind

vars == <<app, keyring, pc, route, calls, result>>

KeyOf(code, ch) == [code |-> code, ch |-> ch]

\* The key events read from the terminal.
Keys ==
    {KeyOf("Char", c) : c \in Chars} \cup
    {KeyOf(code, "") : code \in {"Down", "Up", "Tab", "BackTab", "Enter",
                                 "Backspace", "Esc", "Left", "Right", "F1"}}

\* main: AuthManager::new(AuthMode::Both), App::new(client, auth_manager).
Init ==
    /\ app = App_new([credentials |-> None], AuthManager_new("Both"))
    /\ keyring = {}
    /\ pc = "start"
    /\ route = "none"
    /\ calls = <<>>
    /\ result = "Ok"

\* launcher::start, up to run_app: the initial load of the remote list.
start(a) ==
    { CASE r.res = "Ok" -> r
        [] r.res = "Unauthorized" ->
             R([r.app EXCEPT !.login_modal = Some(new_basic)], "Ok", r.calls)
        [] OTHER ->
             IF should_require_auth_on_startup(r.app.auth_manager)
             THEN R([r.app EXCEPT !.login_modal = Some(new_basic)], "Ok",
                    r.calls)
             ELSE r
      : r \in load_remotes(a) }

Start ==
    /\ pc = "start"
    /\ \E r \in start(app) :
          /\ app' = r.app
          /\ calls' = r.calls
          /\ result' = r.res
          /\ pc' = IF r.res = "Ok" THEN "loop" ELSE "exit"
    /\ UNCHANGED <<keyring, route>>

\* No remote has been entered: nothing is listed and nothing is pending.
Shallow(a) ==
    /\ a.current_remote = None
    /\ a.files = <<>>
    /\ a.pending_delete_remote = None

\* The number of '/'-delimited segments of a path.
Depth(path) == Cardinality({i \in 1..Len(path) : path[i] = "/"})

\* The keys the model explores in a state.  Text is typed into a modal
\* field up to MaxField characters of TextChars and while no remote has
\* been entered; a field is edited only while it is within MaxField; a
\* remote is entered only while no credentials have been submitted, and a
\* directory only up to MaxDepth.  Every other key is explored in every
\* state.
Explored(a, key) ==
    CASE Route(a) = "login" /\ key.code = "Char" ->
           LET m == Unwrap(a.login_modal)
           IN \/ key.ch = "l" /\ m.focus_field = "Password"
              \/ /\ key.ch \in TextChars
                 /\ Shallow(a)
                 /\ Len(IF m.focus_field = "Username" THEN m.username
                        ELSE m.password) < MaxField
      [] Route(a) = "create" /\ key.code = "Char" ->
           /\ key.ch \in TextChars
           /\ Shallow(a)
           /\ Len(Create_focused(Unwrap(a.create_remote_modal))) < MaxField
      [] Route(a) = "create" /\ key.code = "Backspace" ->
           Len(Create_focused(Unwrap(a.create_remote_modal))) <= MaxField
      [] Route(a) = "panel" /\ key.code = "Enter"
             /\ a.focused_panel = "Remotes" ->
           a.auth_manager.daemon_credentials = None
      [] Route(a) = "panel" /\ key.code = "Enter"
             /\ a.focused_panel = "Files" ->
           LET item == Get(a.files, a.files_selected)
           IN IsSome(item) =>
                Depth(JoinPath(a.current_path, name_of(Unwrap(item))))
                    <= MaxDepth
      [] OTHER -> TRUE

\* run_app: one iteration of the loop that reads a key and handles it; an
\* Err of handle_key returns from run_app.
Key ==
    /\ pc = "loop"
    /\ app.running
    /\ \E key \in Keys :
          /\ Explored(app, key)
          /\ \E r \in handle_key(app, keyring, key) :
                /\ app' = r.app
                /\ keyring' = r.keyring
                /\ calls' = r.calls
                /\ result' = r.res
                /\ pc' = IF r.res = "Ok" THEN "loop" ELSE "exit"
          /\ route' = Route(app)

\* run_app: the loop ends once running is false.
Exit ==
    /\ pc = "loop"
    /\ ~app.running
    /\ pc' = "exit"
    /\ UNCHANGED <<app, keyring, route, calls, result>>

Next == Start \/ Key \/ Exit

Spec == Init /\ [][Next]_vars

\* run_app's loop keeps executing: once running is false the while condition
\* is evaluated and the loop is left.  Reading a key waits for the user, so
\* Key has no fairness.
SpecFair == Spec /\ WF_vars(Exit)

\* ------------------------------------------------ the AuthManager by itself

\* The scopes a credential is stored for: the daemon (None) or a remote.  A
\* remote may have any name, "daemon" among them.
ScopeNames == RemoteNames \cup {<<"d", "a", "e", "m", "o", "n">>}

Scopes == {None} \cup {Some(n) : n \in ScopeNames}

\* The credentials handed to the AuthManager for a scope.
CredentialInputs(scope) ==
    {basic(<<"a">>, <<"a">>, scope), bearer(<<"a">>, scope)}

AuthModes == {"RequireOnStartup", "OnDemand", "Both"}

\* A new AuthManager of any mode and an empty keyring.
InitAuth ==
    /\ \E mode \in AuthModes :
          app = App_new([credentials |-> None], AuthManager_new(mode))
    /\ keyring = {}
    /\ pc = "auth"
    /\ route = "none"
    /\ calls = <<>>
    /\ result = "Ok"

\* A call of set_daemon_credentials; calls holds the keyring write it made.
SetDaemon ==
    \E credentials \in CredentialInputs(None), stored \in BOOLEAN :
        LET s == set_daemon_credentials(app.auth_manager, keyring,
                                        credentials, stored)
        IN /\ app' = [app EXCEPT !.auth_manager = s.auth_manager]
           /\ keyring' = s.keyring
           /\ result' = s.res
           /\ route' = "set_daemon_credentials"
           /\ calls' = <<Call("set_password", keyring_key(credentials),
                              IF stored THEN "Ok" ELSE "Keyring")>>
           /\ UNCHANGED pc

\* A call of set_remote_credentials for a remote.
SetRemote ==
    \E remote \in ScopeNames, stored \in BOOLEAN :
        \E credentials \in CredentialInputs(Some(remote)) :
            LET s == set_remote_credentials(app.auth_manager, keyring, remote,
                                            credentials, stored)
            IN /\ app' = [app EXCEPT !.auth_manager = s.auth_manager]
               /\ keyring' = s.keyring
               /\ result' = s.res
               /\ route' = "set_remote_credentials"
               /\ calls' = <<Call("set_password", keyring_key(credentials),
                                  IF stored THEN "Ok" ELSE "Keyring")>>
               /\ UNCHANGED pc

NextAuth == SetDaemon \/ SetRemote

SpecAuth == InitAuth /\ [][NextAuth]_vars

\* ------------------------------------------------- the Login modal by itself

\* The Login modal of either scheme, as its constructors leave it, open over
\* a fresh App inside run_app's loop.  (launcher::start and handle_enter open
\* the modal with new_basic; new_bearer is the other public constructor.)
InitLogin ==
    /\ \E m \in {new_basic, new_bearer} :
          app = [App_new([credentials |-> None], AuthManager_new("Both"))
                    EXCEPT !.login_modal = Some(m)]
    /\ keyring = {}
    /\ pc = "loop"
    /\ route = "none"
    /\ calls = <<>>
    /\ result = "Ok"

\* run_app: one iteration of the loop while the Login modal is open.
LoginKey ==
    /\ IsSome(app.login_modal)
    /\ Key

NextLogin == LoginKey

SpecLogin == InitLogin /\ [][NextLogin]_vars

\* ----------------------------------------------- startup in every auth mode

\* main with an AuthManager of any mode (main itself passes AuthMode::Both).
InitModes ==
    /\ \E mode \in AuthModes :
          app = App_new([credentials |-> None], AuthManager_new(mode))
    /\ keyring = {}
    /\ pc = "start"
    /\ route = "none"
    /\ calls = <<>>
    /\ result = "Ok"

\* launcher::start, and run_app while the Login modal it opened is open.
NextModes == Start \/ LoginKey

SpecModes == InitModes /\ [][NextModes]_vars

\* ------------------------------------------------------------- properties

\* A key is about to be read and handled.
Handling == pc = "loop" /\ app.running

\* Every result handle_key can return for a key in the current state.
Results(key) == handle_key(app, keyring, key)

Enter == KeyOf("Enter", "")

Open(a, m) ==
    CASE m = "login" -> IsSome(a.login_modal)
      [] m = "confirm" -> IsSome(a.confirm_modal)
      [] m = "create" -> IsSome(a.create_remote_modal)

Modals == {"login", "confirm", "create"}

ModalCount(a) == Cardinality({m \in Modals : Open(a, m)})

\* A call of the given operation with the given outcome is among the calls.
Called(cs, op, out) == \E i \in 1..Len(cs) : cs[i].op = op /\ cs[i].out = out

\* C1: in every state reachable from startup at most one of login_modal,
\* confirm_modal and create_remote_modal is set, and every key, under every
\* daemon outcome, leads to such a state.
C1_AtMostOneModal ==
    /\ ModalCount(app) <= 1
    /\ Handling =>
          \A key \in Keys : \A r \in Results(key) : ModalCount(r.app) <= 1

\* C1 witness: a key handled by the panels has opened the Login modal, and
\* it is the only modal.
C1_Witness ==
    /\ route = "panel"
    /\ IsSome(app.login_modal)
    /\ ModalCount(app) = 1

\* C2: while a modal is open every key is handled by that modal: running,
\* focused_panel, current_remote and current_path keep their values and no
\* modal of another type is opened.
C2_ModalOwnsKeys ==
    (Handling /\ ModalCount(app) >= 1) =>
        \A key \in Keys : \A r \in Results(key) :
            /\ r.app.running = app.running
            /\ r.app.focused_panel = app.focused_panel
            /\ r.app.current_remote = app.current_remote
            /\ r.app.current_path = app.current_path
            /\ \A m \in Modals : Open(r.app, m) => Open(app, m)

\* C2 witness: a key was handled by the Create/Edit modal opened over the
\* Remotes panel, and the modal is still the one open.
C2_Witness ==
    /\ route = "create"
    /\ IsSome(app.create_remote_modal)
    /\ app.focused_panel = "Remotes"
    /\ app.running

\* C3: Enter in the Files panel whose listing is denied (Unauthorized)
\* leaves current_path as it was, opens the Login modal, keeps the Files
\* panel focused and returns Ok.
C3_EnterDirRollback ==
    (Handling /\ Route(app) = "panel" /\ app.focused_panel = "Files") =>
        \A r \in Results(Enter) :
            Called(r.calls, "list_files", "Unauthorized") =>
                /\ r.app.current_path = app.current_path
                /\ IsSome(r.app.login_modal)
                /\ r.app.focused_panel = "Files"
                /\ r.res = "Ok"

\* C3 witness: a denied listing of a sub-directory of a non-root path was
\* handled in the Files panel, and the path is the parent's again.
C3_Witness ==
    /\ route = "panel"
    /\ calls = <<Call("list_files", <<"/", "a", "b", "/", "a", "b">>,
                      "Unauthorized")>>
    /\ app.focused_panel = "Files"
    /\ app.current_path = <<"/", "a", "b">>
    /\ IsSome(app.login_modal)

\* C4: Enter in the Remotes panel whose listing is denied (Unauthorized)
\* leaves current_remote unset, opens the Login modal, keeps the Remotes
\* panel focused and returns Ok.
C4_EnterRemoteRollback ==
    (Handling /\ Route(app) = "panel" /\ app.focused_panel = "Remotes") =>
        \A r \in Results(Enter) :
            Called(r.calls, "list_files", "Unauthorized") =>
                /\ r.app.current_remote = None
                /\ IsSome(r.app.login_modal)
                /\ r.app.focused_panel = "Remotes"
                /\ r.res = "Ok"

\* C4 witness: a denied listing of a remote's root was handled in the
\* Remotes panel; the Login modal is open and no remote is current.
C4_Witness ==
    /\ route = "panel"
    /\ calls = <<Call("list_files", <<>>, "Unauthorized")>>
    /\ app.focused_panel = "Remotes"
    /\ app.current_remote = None
    /\ IsSome(app.login_modal)
    /\ result = "Ok"

\* C5 (as claimed): a daemon call that was denied (Unauthorized) while a
\* key was handled is never fatal: handle_key returned Ok, the run loop is
\* still running and the Login modal is open.
C5_AuthDeniedNeverFatal ==
    (route # "none" /\ \E i \in 1..Len(calls) : calls[i].out = "Unauthorized")
        => /\ result = "Ok"
           /\ pc = "loop"
           /\ IsSome(app.login_modal)

\* Both selections are valid indexes, or their list is empty.
SelectionsValid(a) ==
    /\ a.remotes = <<>> \/ a.remotes_selected < Len(a.remotes)
    /\ a.files = <<>> \/ a.files_selected < Len(a.files)

\* C6: in every reachable state remotes_selected and files_selected are
\* valid indexes of their lists or the list is empty, and every key, under
\* every daemon outcome, leads to such a state.
C6_SelectionsInRange ==
    /\ app.remotes_selected >= 0 /\ app.files_selected >= 0
    /\ SelectionsValid(app)
    /\ Handling =>
          \A key \in Keys : \A r \in Results(key) : SelectionsValid(r.app)

\* C6 witness: a confirmed delete was followed by a refresh that left a
\* shorter list, and the selection is the last entry of it.
C6_Witness ==
    /\ route = "confirm"
    /\ calls = <<Call("delete_remote", <<"s">>, "Ok"),
                 Call("list_remotes", <<>>, "Ok")>>
    /\ app.remotes = <<<<"a">>>>
    /\ app.remotes_selected = 0

\* C7 (as claimed): pending_delete_remote is set only while the Confirm
\* modal is open.
C7_PendingOnlyWhileConfirm ==
    IsSome(app.pending_delete_remote) => IsSome(app.confirm_modal)

\* C8 (as claimed): after Enter on a confirmed Confirm modal with a pending
\* target (the only key of that modal that calls the daemon) the Confirm
\* modal is closed, whatever the daemon answered.
C8_AlwaysClosed ==
    (route = "confirm" /\ calls # <<>>) => ~IsSome(app.confirm_modal)

\* C8 (amended): Enter on a confirmed Confirm modal with a pending target
\* closes the modal exactly when delete_remote and the refresh both
\* succeed; when either fails handle_key returns that error, the Confirm
\* modal is still open and pending_delete_remote is unset.
C8_ClosedIffDeleted ==
    (/\ Handling
     /\ Route(app) = "confirm"
     /\ is_confirmed(Unwrap(app.confirm_modal))
     /\ IsSome(app.pending_delete_remote)) =>
        \A r \in Results(Enter) :
            /\ r.calls # <<>>
            /\ r.calls[1].op = "delete_remote"
            /\ r.res = "Ok" <=> \A i \in 1..Len(r.calls) : r.calls[i].out = "Ok"
            /\ r.res = "Ok" => ~IsSome(r.app.confirm_modal)
            /\ r.res # "Ok" =>
                  /\ r.res = r.calls[Len(r.calls)].out
                  /\ IsSome(r.app.confirm_modal)
                  /\ r.app.pending_delete_remote = None

\* C8 witness: delete_remote failed on a confirmed Enter; handle_key
\* returned the error and the Confirm modal is still open.
C8_Witness ==
    /\ route = "confirm"
    /\ calls = <<Call("delete_remote", <<"a">>, "Other")>>
    /\ result = "Other"
    /\ pc = "exit"
    /\ IsSome(app.confirm_modal)
    /\ app.pending_delete_remote = None

\* C9: in the Confirm modal 'y' on a confirmed choice and 'n' on a
\* not-confirmed choice leave the App and the keyring as they are; 'y' and
\* 'n' otherwise set the choice to the key's side; Tab, Left and Right
\* always flip it; none of these keys changes anything else or calls the
\* daemon.
C9_ConfirmChoice ==
    (Handling /\ Route(app) = "confirm") =>
        LET modal == Unwrap(app.confirm_modal)
            chosen(b) == [app EXCEPT !.confirm_modal =
                             Some([modal EXCEPT !.confirmed = b])]
            only(key, a) ==
                Results(key) = {RK(R(a, "Ok", <<>>), keyring)}
        IN /\ modal.confirmed => only(KeyOf("Char", "y"), app)
           /\ ~modal.confirmed => only(KeyOf("Char", "n"), app)
           /\ only(KeyOf("Char", "y"), chosen(TRUE))
           /\ only(KeyOf("Char", "n"), chosen(FALSE))
           /\ \A code \in {"Tab", "Left", "Right"} :
                 only(KeyOf(code, ""), chosen(~modal.confirmed))

\* C9 witness: a key was handled by the Confirm modal, the choice is
\* confirmed, and 'y' pressed now gives this very state.
C9_Witness ==
    /\ Handling
    /\ route = "confirm"
    /\ IsSome(app.confirm_modal)
    /\ Unwrap(app.confirm_modal).confirmed
    /\ \A r \in Results(KeyOf("Char", "y")) : r.app = app

\* C10: a valid Login submission whose probe (the remote-list reload) fails
\* returns Ok and leaves the client without credentials and the Login modal
\* open with an error and with the username and secret as typed.
C10_FailedLoginRollsBack ==
    (/\ Handling
     /\ Route(app) = "login"
     /\ Login_is_valid(Unwrap(app.login_modal))) =>
        \A r \in Results(Enter) :
            /\ r.calls # <<>> /\ r.calls[Len(r.calls)].op = "list_remotes"
            /\ r.calls[Len(r.calls)].out # "Ok" =>
                  /\ r.res = "Ok"
                  /\ r.app.client.credentials = None
                  /\ IsSome(r.app.login_modal)
                  /\ IsSome(Unwrap(r.app.login_modal).error)
                  /\ Unwrap(r.app.login_modal).username
                        = Unwrap(app.login_modal).username
                  /\ Unwrap(r.app.login_modal).password
                        = Unwrap(app.login_modal).password

\* C10 witness: typed credentials were submitted, the probe was denied, the
\* Login modal shows the failure and the client holds no credentials.
C10_Witness ==
    /\ route = "login"
    /\ calls = <<Call("list_remotes", <<>>, "Unauthorized")>>
    /\ result = "Ok"
    /\ IsSome(app.login_modal)
    /\ Unwrap(app.login_modal).error
          = Some(<<"Authentication failed: ", "Unauthorized">>)
    /\ Unwrap(app.login_modal).username = <<"a">>
    /\ Unwrap(app.login_modal).password = <<"a">>
    /\ app.client.credentials = None
    /\ IsSome(app.auth_manager.daemon_credentials)

\* The Login form is incomplete: with the Basic scheme the username or the
\* password is empty, with the Bearer scheme the token is empty.
LoginIncomplete(m) ==
    IF m.auth_type = "Basic" THEN m.username = <<>> \/ m.password = <<>>
    ELSE m.password = <<>>

\* The credentials a Login form stands for.
LoginCredentials(m) ==
    IF m.auth_type = "Basic" THEN basic(m.username, m.password, None)
    ELSE bearer(m.password, None)

\* C11: Enter on the Login modal is rejected locally exactly when the form
\* is incomplete.  Rejected: only the modal's error changes (username,
\* password and focus, the client's credentials and the AuthManager are as
\* before), the keyring is untouched, no daemon call is issued and Ok is
\* returned.  Not rejected: the credentials are handed to the AuthManager
\* and the daemon is called.
C11_InvalidLoginRejected ==
    (Handling /\ IsSome(app.login_modal)) =>
        LET m == Unwrap(app.login_modal)
        IN \A r \in Results(Enter) :
              IF LoginIncomplete(m)
              THEN /\ r.app = [app EXCEPT !.login_modal =
                                  Some([m EXCEPT !.error =
                                      Some(<<"All fields are required">>)])]
                   /\ r.keyring = keyring
                   /\ r.calls = <<>>
                   /\ r.res = "Ok"
              ELSE /\ r.app.auth_manager.daemon_credentials =
                          Some(LoginCredentials(m))
                   /\ r.calls # <<>>

\* C11 witness: a Basic form with username "a" and an empty password was
\* submitted and rejected; the modal is open with its fields intact.
C11_Witness ==
    /\ route = "login"
    /\ calls = <<>>
    /\ IsSome(app.login_modal)
    /\ Unwrap(app.login_modal).auth_type = "Basic"
    /\ Unwrap(app.login_modal).username = <<"a">>
    /\ Unwrap(app.login_modal).password = <<>>
    /\ Unwrap(app.login_modal).error = Some(<<"All fields are required">>)
    /\ app.client.credentials = None
    /\ app.auth_manager.daemon_credentials = None

\* C12 (as claimed): when the keyring write of a valid Login submission
\* fails, handle_key returns Ok, the Login modal shows an error, the
\* submitted credentials stay installed on the client and the remote list
\* is still reloaded as the probe.
C12_StoreFailureShown ==
    (Handling /\ IsSome(app.login_modal)
        /\ ~LoginIncomplete(Unwrap(app.login_modal))) =>
        \A r \in Results(Enter) :
            r.store = "Keyring" =>
                /\ r.res = "Ok"
                /\ IsSome(r.app.login_modal)
                /\ IsSome(Unwrap(r.app.login_modal).error)
                /\ r.app.client.credentials =
                       Some(LoginCredentials(Unwrap(app.login_modal)))
                /\ \E i \in 1..Len(r.calls) : r.calls[i].op = "list_remotes"

\* C12, the part the code keeps: a failed keyring write is not fatal, the
\* probe is still made, and the AuthManager holds the credentials.
C12_StoreFailureNotFatal ==
    (Handling /\ IsSome(app.login_modal)
        /\ ~LoginIncomplete(Unwrap(app.login_modal))) =>
        \A r \in Results(Enter) :
            r.store = "Keyring" =>
                /\ r.res = "Ok"
                /\ r.keyring = keyring
                /\ \E i \in 1..Len(r.calls) : r.calls[i].op = "list_remotes"
                /\ r.app.auth_manager.daemon_credentials =
                       Some(LoginCredentials(Unwrap(app.login_modal)))

\* The Create/Edit form as the user filled it: every field but the error.
FormOf(m) == [m EXCEPT !.error = None]

\* The App apart from its Create/Edit modal.
BesidesCreateModal(a) == [a EXCEPT !.create_remote_modal = None]

\* C13: Enter on a Create/Edit modal whose name or remote_type is empty
\* issues no daemon call, sets the modal's error, keeps the modal open with
\* mode, name, remote_type, path and focus_field unchanged, changes nothing
\* else and returns Ok.
C13_InvalidFormRejected ==
    (Handling /\ Route(app) = "create") =>
        LET m == Unwrap(app.create_remote_modal)
        IN (m.name = <<>> \/ m.remote_type = <<>>) =>
              \A r \in Results(Enter) :
                  /\ r.calls = <<>>
                  /\ r.res = "Ok"
                  /\ IsSome(r.app.create_remote_modal)
                  /\ IsSome(Unwrap(r.app.create_remote_modal).error)
                  /\ FormOf(Unwrap(r.app.create_remote_modal)) = FormOf(m)
                  /\ BesidesCreateModal(r.app) = BesidesCreateModal(app)

\* C13 witness: a Create form with a name and no type was submitted; it is
\* open with the error set, the name kept, and no call was made.
C13_Witness ==
    /\ route = "create"
    /\ calls = <<>>
    /\ IsSome(app.create_remote_modal)
    /\ Unwrap(app.create_remote_modal).mode = "Create"
    /\ Unwrap(app.create_remote_modal).name = <<"a">>
    /\ Unwrap(app.create_remote_modal).remote_type = <<>>
    /\ Unwrap(app.create_remote_modal).error =
           Some(<<"Name and Type are required">>)

\* C14: when the create_remote or update_remote call of a valid submission
\* fails, handle_key returns Ok, the modal is open with the failure as its
\* error and with mode, name, remote_type, path and focus_field as before,
\* the remote list is not reloaded (nothing besides the modal changes), and
\* the next Enter issues the same mutation for the same name.
C14_FailedSubmitKeepsForm ==
    (Handling /\ Route(app) = "create") =>
        LET m == Unwrap(app.create_remote_modal)
        IN \A r \in Results(Enter) :
              (r.calls # <<>> /\ r.calls[1].out # "Ok") =>
                  /\ r.res = "Ok"
                  /\ Len(r.calls) = 1
                  /\ IsSome(r.app.create_remote_modal)
                  /\ Unwrap(r.app.create_remote_modal).error =
                         Some(<<"Error: ", r.calls[1].out>>)
                  /\ FormOf(Unwrap(r.app.create_remote_modal)) = FormOf(m)
                  /\ BesidesCreateModal(r.app) = BesidesCreateModal(app)
                  /\ \A again \in handle_key(r.app, r.keyring, Enter) :
                         /\ again.calls # <<>>
                         /\ again.calls[1].op = r.calls[1].op
                         /\ again.calls[1].arg = r.calls[1].arg

\* C14 witness: create_remote for the name "a" failed; the Create form is
\* open with the error and with its name and type kept.
C14_Witness ==
    /\ route = "create"
    /\ calls = <<Call("create_remote", <<"a">>, "Other")>>
    /\ result = "Ok"
    /\ pc = "loop"
    /\ IsSome(app.create_remote_modal)
    /\ Unwrap(app.create_remote_modal).mode = "Create"
    /\ Unwrap(app.create_remote_modal).name = <<"a">>
    /\ Unwrap(app.create_remote_modal).remote_type = <<"a">>
    /\ Unwrap(app.create_remote_modal).error = Some(<<"Error: ", "Other">>)

\* C15: Enter on a Create/Edit modal with a name and a remote_type issues
\* exactly one daemon mutation, create_remote in mode Create and
\* update_remote in mode Edit, for the modal's name.  When it succeeds the
\* modal is closed and list_remotes is called after it; a successful reload
\* makes remotes the list the daemon reported, whichever list that is.
C15_SubmitMutatesOnceThenReloads ==
    (Handling /\ Route(app) = "create"
        /\ Unwrap(app.create_remote_modal).name # <<>>
        /\ Unwrap(app.create_remote_modal).remote_type # <<>>) =>
        LET m == Unwrap(app.create_remote_modal)
            ok == {r \in Results(Enter) : r.calls[1].out = "Ok"}
        IN /\ \A r \in Results(Enter) :
                 /\ r.calls # <<>>
                 /\ r.calls[1].op = IF m.mode = "Create" THEN "create_remote"
                                     ELSE "update_remote"
                 /\ r.calls[1].arg = m.name
                 /\ \A i \in 2..Len(r.calls) : r.calls[i].op = "list_remotes"
           /\ \A r \in ok :
                 /\ r.app.create_remote_modal = None
                 /\ Len(r.calls) = 2
                 /\ r.res = r.calls[2].out
                 /\ r.res = "Ok" => /\ r.app.remotes \in RemoteLists
                                     /\ SelectionsValid(r.app)
                 /\ r.res # "Ok" => r.app.remotes = app.remotes
           /\ \A l \in RemoteLists :
                 \E r \in ok : r.res = "Ok" /\ r.app.remotes = l

\* C15 witness: create_remote for "a" succeeded, the list was reloaded after
\* it and holds the new name; the modal is closed.
C15_Witness ==
    /\ route = "create"
    /\ calls = <<Call("create_remote", <<"a">>, "Ok"),
                 Call("list_remotes", <<>>, "Ok")>>
    /\ result = "Ok"
    /\ app.create_remote_modal = None
    /\ app.remotes = <<<<"s">>, <<"a">>>>

Backspace == KeyOf("Backspace", "")

\* C16: with no modal open, Backspace in the Files panel with an empty
\* current_path focuses the Remotes panel, unsets current_remote and
\* empties the file list, changes nothing else and issues no daemon call;
\* Backspace in the Remotes panel changes nothing and issues no daemon call.
C16_BackspaceAtRoot ==
    (Handling /\ Route(app) = "panel") =>
        \A r \in Results(Backspace) :
            /\ (app.focused_panel = "Files" /\ app.current_path = <<>>) =>
                   /\ r.app = [app EXCEPT !.focused_panel = "Remotes",
                                           !.current_remote = None,
                                           !.files = <<>>]
                   /\ r.calls = <<>>
                   /\ r.res = "Ok"
            /\ app.focused_panel = "Remotes" =>
                   /\ r.app = app
                   /\ r.calls = <<>>
                   /\ r.res = "Ok"

\* C16 witness: Backspace was pressed at the root of a remote whose second
\* file was selected: the Remotes panel is focused, no remote is current and
\* the file list is empty (only this path leaves the selection behind).
C16_Witness ==
    /\ route = "panel"
    /\ calls = <<>>
    /\ app.focused_panel = "Remotes"
    /\ app.current_remote = None
    /\ app.current_path = <<>>
    /\ app.files = <<>>
    /\ app.files_selected = 1

\* C17 (as claimed): in every reachable state current_remote is set only
\* while the Files panel is focused.
C17_RemoteOnlyInFiles ==
    IsSome(app.current_remote) => app.focused_panel = "Files"

\* C17 (as claimed), for the states in which the run loop goes on: this
\* leaves out the failed listing, after which handle_key has returned Err,
\* and is still refuted, by Tab pressed in the Files panel of a remote.
C17_RemoteOnlyInFilesWhileRunning ==
    (pc = "loop" /\ IsSome(app.current_remote)) => app.focused_panel = "Files"

\* C18 (as claimed): after a key handled in the Files panel, current_path
\* is never the path of a listing that failed while the key was handled.
C18_FailedListingNotCurrent ==
    (route = "panel" /\ app.focused_panel = "Files") =>
        \A i \in 1..Len(calls) :
            (calls[i].op = "list_files" /\ calls[i].out # "Ok") =>
                app.current_path # calls[i].arg

\* C18 (as claimed), for a denied listing alone: refuted by Backspace, which
\* has no arm for Unauthorized.
C18_DeniedListingNotCurrent ==
    (route = "panel" /\ app.focused_panel = "Files") =>
        \A i \in 1..Len(calls) :
            (calls[i].op = "list_files" /\ calls[i].out = "Unauthorized") =>
                app.current_path # calls[i].arg

\* With no modal open, 'q' sets running to false and nothing else, issues
\* no daemon call and returns Ok, in either panel.
QuitOnlyStops ==
    (Handling /\ Route(app) = "panel") =>
        \A r \in Results(KeyOf("Char", "q")) :
            /\ r.app = [app EXCEPT !.running = FALSE]
            /\ r.calls = <<>>
            /\ r.res = "Ok"
            /\ r.keyring = keyring

\* Once running is false the only step is the one that leaves the loop: no
\* key is handled, nothing of the App changes and no call is made.
StoppedHandlesNothing ==
    ~app.running =>
        /\ pc' = "exit"
        /\ UNCHANGED <<app, keyring, route, calls, result>>

\* C19: with no modal open the quit key sets running to false, issues no
\* daemon call and changes no other field; once running is false the run
\* loop handles no further key and terminates.
C19_QuitStopsTheLoop ==
    /\ []QuitOnlyStops
    /\ [][StoppedHandlesNothing]_vars
    /\ (~app.running ~> pc = "exit")

\* C19 witness: 'q' was pressed with the Files panel focused, and the run
\* loop has ended.
C19_Witness ==
    /\ route = "panel"
    /\ ~app.running
    /\ pc = "exit"
    /\ result = "Ok"
    /\ app.focused_panel = "Files"
    /\ IsSome(app.current_remote)

\* C20: on every Login modal reached by any sequence of keys (next_field
\* and prev_field among them): with the Basic scheme the focus is Username
\* or Password and next_field and prev_field each move it to the other
\* one, so that next twice is the identity and prev equals next; with the
\* Bearer scheme the focus is Token and stays there; neither changes any
\* field but the focus; and Tab and BackTab are next_field and prev_field.
C20_FieldCycle ==
    IsSome(app.login_modal) =>
        LET m == Unwrap(app.login_modal)
            next == Login_next_field(m)
            prev == Login_prev_field(m)
        IN /\ m.auth_type = "Basic" =>
                 /\ m.focus_field \in {"Username", "Password"}
                 /\ next.focus_field \in {"Username", "Password"}
                 /\ next.focus_field # m.focus_field
                 /\ Login_next_field(next) = m
                 /\ prev = next
           /\ m.auth_type = "Bearer" =>
                 /\ m.focus_field = "Token"
                 /\ next = m
                 /\ prev = m
           /\ [next EXCEPT !.focus_field = m.focus_field] = m
           /\ [prev EXCEPT !.focus_field = m.focus_field] = m
           /\ Handling =>
                 /\ \A r \in Results(KeyOf("Tab", "")) :
                        r.app = [app EXCEPT !.login_modal = Some(next)]
                 /\ \A r \in Results(KeyOf("BackTab", "")) :
                        r.app = [app EXCEPT !.login_modal = Some(prev)]

\* C20 witness: in a Basic form the focus was moved to the password after
\* the username was typed; the username is still there.
C20_Witness ==
    /\ route = "login"
    /\ IsSome(app.login_modal)
    /\ Unwrap(app.login_modal).auth_type = "Basic"
    /\ Unwrap(app.login_modal).focus_field = "Password"
    /\ Unwrap(app.login_modal).username = <<"a">>
    /\ Unwrap(app.login_modal).password = <<>>
    /\ Unwrap(app.login_modal).error = None

\* The text a Login modal's focus is on, and the other one.
LoginFocused(m) == IF m.focus_field = "Username" THEN m.username ELSE m.password

LoginOther(m) == IF m.focus_field = "Username" THEN m.password ELSE m.username

\* C21: on every Login modal reached by any sequence of keys, input_char
\* appends the character to the focused field (username when the focus is
\* Username, password when it is Password or Token) and backspace removes
\* the last character of the focused field, an empty field staying empty;
\* the other field, the focus, the scheme, the masking and the error are as
\* before.
C21_LoginEditsFocusedField ==
    IsSome(app.login_modal) =>
        LET m == Unwrap(app.login_modal)
            back == Login_backspace(m)
        IN /\ \A c \in Chars :
                 LET typed == Login_input_char(m, c)
                 IN /\ LoginFocused(typed) = LoginFocused(m) \o <<c>>
                    /\ LoginOther(typed) = LoginOther(m)
                    /\ [typed EXCEPT !.username = m.username,
                                      !.password = m.password] = m
           /\ LoginFocused(m) = <<>> => back = m
           /\ LoginFocused(m) # <<>> =>
                 /\ Len(LoginFocused(back)) = Len(LoginFocused(m)) - 1
                 /\ LoginFocused(back) \o <<LoginFocused(m)[Len(LoginFocused(m))]>>
                        = LoginFocused(m)
           /\ LoginOther(back) = LoginOther(m)
           /\ [back EXCEPT !.username = m.username,
                            !.password = m.password] = m

\* C21 witness: a character was typed with the focus on the password of a
\* Basic form; the username is still empty.
C21_Witness ==
    /\ route = "login"
    /\ IsSome(app.login_modal)
    /\ Unwrap(app.login_modal).auth_type = "Basic"
    /\ Unwrap(app.login_modal).focus_field = "Password"
    /\ Unwrap(app.login_modal).password = <<"a">>
    /\ Unwrap(app.login_modal).username = <<>>

\* C22: set_daemon_credentials and set_remote_credentials return Ok and
\* keep the given credentials in memory, as the daemon credentials and
\* under the remote's name, whether the keyring write succeeds or fails
\* (a failed write leaves the keyring as it was); set_remote_credentials
\* leaves the daemon credentials and the other remotes' entries unchanged,
\* and set_daemon_credentials leaves every remote's entry unchanged.
C22_CredentialsKeptInMemory ==
    LET am == app.auth_manager
    IN /\ \A credentials \in CredentialInputs(None), stored \in BOOLEAN :
             LET s == set_daemon_credentials(am, keyring, credentials, stored)
             IN /\ s.res = "Ok"
                /\ s.auth_manager.daemon_credentials = Some(credentials)
                /\ s.auth_manager.remote_credentials = am.remote_credentials
                /\ s.auth_manager.auth_mode = am.auth_mode
                /\ ~stored => s.keyring = keyring
       /\ \A remote \in ScopeNames, stored \in BOOLEAN :
             \A credentials \in CredentialInputs(Some(remote)) :
                 LET s == set_remote_credentials(am, keyring, remote,
                                                 credentials, stored)
                 IN /\ s.res = "Ok"
                    /\ get(s.auth_manager.remote_credentials, remote) =
                           Some(credentials)
                    /\ \A other \in ScopeNames \ {remote} :
                           get(s.auth_manager.remote_credentials, other) =
                               get(am.remote_credentials, other)
                    /\ s.auth_manager.daemon_credentials =
                           am.daemon_credentials
                    /\ s.auth_manager.auth_mode = am.auth_mode
                    /\ ~stored => s.keyring = keyring

\* C22 witness: set_remote_credentials for "a" returned Ok although its
\* keyring write failed; the credentials are held under "a", next to the
\* daemon credentials and another remote's entry set before.
C22_Witness ==
    /\ route = "set_remote_credentials"
    /\ calls = <<Call("set_password", KeyPrefix \o <<"a">>, "Keyring")>>
    /\ result = "Ok"
    /\ get(app.auth_manager.remote_credentials, <<"a">>) =
           Some(bearer(<<"a">>, Some(<<"a">>)))
    /\ IsSome(get(app.auth_manager.remote_credentials, <<"s">>))
    /\ IsSome(app.auth_manager.daemon_credentials)
    /\ \A e \in keyring : e[1] # KeyPrefix \o <<"a">>

\* The keyring key of a scope, whatever the credentials.
KeyOfScope(scope) == keyring_key(basic(<<>>, <<>>, scope))

\* C23 (as claimed): the keyring key of a credential depends on its scope
\* only, and two different scopes, the daemon and a remote or two remotes,
\* never have the same key: an entry of the keyring sits under the key of
\* its own scope and of no other.
C23_ScopeKeysDistinct ==
    \A e \in keyring :
        /\ e[1] = KeyOfScope(e[2].remote)
        /\ \A scope \in Scopes :
               scope # e[2].remote => KeyOfScope(scope) # e[1]

\* C23, what the code keeps: the key depends on the scope only, the daemon's
\* key is "lazyfile-daemon", a remote's key is "lazyfile-" and its name,
\* and two different remote names never have the same key.
C23_RemoteKeysDistinct ==
    /\ \A scope \in Scopes : \A c \in CredentialInputs(scope) :
           keyring_key(c) = KeyOfScope(scope)
    /\ KeyOfScope(None) = KeyPrefix \o <<"d", "a", "e", "m", "o", "n">>
    /\ \A n \in ScopeNames : KeyOfScope(Some(n)) = KeyPrefix \o n
    /\ \A n1, n2 \in ScopeNames :
           n1 # n2 => KeyOfScope(Some(n1)) # KeyOfScope(Some(n2))

EditKey == KeyOf("Char", "e")

\* What the edit key does with a pre-filled remote_type given by typeOf: in
\* the Remotes panel with a selected remote it opens the modal in mode Edit
\* with that remote's name and type, elsewhere it changes nothing; it
\* issues no daemon call and returns Ok.
EditOpens(typeOf(_)) ==
    (Handling /\ Route(app) = "panel") =>
        LET remote == Get(app.remotes, app.remotes_selected)
        IN \A r \in Results(EditKey) :
              /\ r.calls = <<>>
              /\ r.res = "Ok"
              /\ IF app.focused_panel = "Remotes" /\ IsSome(remote)
                 THEN r.app = [app EXCEPT !.create_remote_modal =
                          Some([mode |-> "Edit", name |-> Unwrap(remote),
                                remote_type |-> typeOf(Unwrap(remote)),
                                path |-> <<>>, focus_field |-> "Name",
                                error |-> None])]
                 ELSE r.app = app

\* C24 (as claimed): the edit key opens the modal only in the Remotes panel
\* with a selected remote, in mode Edit, with the name of
\* remotes[remotes_selected] and with that remote's own type.
C24_EditPrefillsOwnType == EditOpens(remote_type_of)

\* The type every Edit modal is opened with.
TypeLocal(name) == LocalType

\* C24, what the code keeps: the same with the type "local" for every
\* remote.
C24_EditPrefillsLocal == EditOpens(TypeLocal)

MaskKey == KeyOf("Char", "l")

\* What 'l' does in the Login modal: with the focus on the password of a
\* Basic form it toggles is_password_masked and nothing else; with any other
\* focus it is appended to the focused field and the error is cleared.
MaskKeyByFocus ==
    (Handling /\ IsSome(app.login_modal)) =>
        LET m == Unwrap(app.login_modal)
        IN \A r \in Results(MaskKey) :
              /\ r.calls = <<>>
              /\ r.res = "Ok"
              /\ r.app =
                   [app EXCEPT !.login_modal = Some(
                       CASE m.focus_field = "Password" ->
                              [m EXCEPT !.is_password_masked = ~@]
                         [] m.focus_field = "Username" ->
                              [m EXCEPT !.username = @ \o <<"l">>,
                                        !.error = None]
                         [] OTHER ->
                              [m EXCEPT !.password = @ \o <<"l">>,
                                        !.error = None])]

\* Some sequence of at most two keys toggles the masking of the modal.
MaskingCanBeToggled ==
    (Handling /\ IsSome(app.login_modal)) =>
        \E k1, k2 \in Keys : \E r1 \in Results(k1) :
            /\ IsSome(r1.app.login_modal)
            /\ \E r2 \in handle_key(r1.app, r1.keyring, k2) :
                   /\ IsSome(r2.app.login_modal)
                   /\ Unwrap(r2.app.login_modal).is_password_masked #
                          Unwrap(app.login_modal).is_password_masked

\* C25 (as claimed): 'l' toggles the masking exactly when the password of a
\* Basic form is focused and is typed like any character otherwise, and for
\* each scheme there is a key that toggles the masking.
C25_MaskKeyForEachScheme == MaskKeyByFocus /\ MaskingCanBeToggled

\* C25, what the code keeps: the same, with a toggling key for the Basic
\* scheme alone.
C25_MaskKeyForBasic ==
    /\ MaskKeyByFocus
    /\ (IsSome(app.login_modal)
          /\ Unwrap(app.login_modal).auth_type = "Basic") =>
             MaskingCanBeToggled

\* A listing was made while the key was handled, and it succeeded.
Listed(r) == r.calls # <<>> /\ r.calls[1].op = "list_files"
                 /\ r.calls[1].out = "Ok"

\* C26: in the Files panel, a successful Enter on the directory entry n
\* sets current_path to "/" n when it was empty and to p "/" n otherwise,
\* and a Backspace after it whose listing succeeds yields p again; a
\* successful Backspace on a non-empty path removes exactly its last
\* '/'-delimited segment and stays in the Files panel.
C26_EnterThenBackspace ==
    (Handling /\ Route(app) = "panel" /\ app.focused_panel = "Files") =>
        LET p == app.current_path
            item == Get(app.files, app.files_selected)
        IN /\ \A r \in Results(Enter) :
                 Listed(r) =>
                     /\ IsSome(item) /\ Unwrap(item).is_dir
                     /\ r.app.current_path =
                            IF p = <<>> THEN <<"/">> \o Unwrap(item).name
                            ELSE p \o <<"/">> \o Unwrap(item).name
                     /\ r.app.focused_panel = "Files"
                     /\ \A b \in handle_key(r.app, r.keyring, Backspace) :
                            /\ b.calls # <<>>
                            /\ Listed(b) => /\ b.app.current_path = p
                                            /\ b.app.focused_panel = "Files"
           /\ \A b \in Results(Backspace) :
                 (p # <<>> /\ b.res = "Ok") =>
                     /\ b.app.focused_panel = "Files"
                     /\ \E i \in 1..Len(p) :
                            /\ p[i] = "/"
                            /\ \A j \in (i + 1)..Len(p) : p[j] # "/"
                            /\ b.app.current_path = SubSeq(p, 1, i - 1)

\* C26 witness: Enter on the directory "ab" inside "/ab" succeeded: the
\* path is "/ab/ab", listed, with the Files panel focused.
C26_Witness ==
    /\ route = "panel"
    /\ result = "Ok"
    /\ calls = <<Call("list_files", <<"/", "a", "b", "/", "a", "b">>, "Ok")>>
    /\ app.current_path = <<"/", "a", "b", "/", "a", "b">>
    /\ app.focused_panel = "Files"

DeleteKey == KeyOf("Char", "d")

\* The delete_remote calls among the calls of a result.
Deletes(r) == {i \in 1..Len(r.calls) : r.calls[i].op = "delete_remote"}

\* C27: delete_remote is called only while Enter is handled in a Confirm
\* modal whose choice is confirmed, once, for the pending name, which is
\* remotes[remotes_selected] as it was when the delete key opened the modal
\* (neither changes while the modal is open); the call unsets the pending
\* name and no key handled by the modal sets one, so a modal deletes at most
\* once.  The delete key opens the modal only in the Remotes panel with a
\* non-empty list, not-confirmed, with the selected name pending, and
\* issues no call.
C27_DeleteOnlyConfirmedSelected ==
    Handling =>
        /\ \A key \in Keys : \A r \in Results(key) :
               Deletes(r) # {} =>
                   /\ Route(app) = "confirm"
                   /\ key = Enter
                   /\ is_confirmed(Unwrap(app.confirm_modal))
                   /\ Deletes(r) = {1}
                   /\ Some(r.calls[1].arg) = app.pending_delete_remote
                   /\ r.app.pending_delete_remote = None
        /\ Route(app) = "confirm" =>
               /\ IsSome(app.pending_delete_remote) =>
                      app.pending_delete_remote =
                          Get(app.remotes, app.remotes_selected)
               /\ \A key \in Keys : \A r \in Results(key) :
                      IsSome(r.app.confirm_modal) =>
                          /\ r.app.pending_delete_remote
                                 \in {app.pending_delete_remote, None}
                          /\ Deletes(r) = {} =>
                                 /\ r.app.remotes = app.remotes
                                 /\ r.app.remotes_selected =
                                        app.remotes_selected
        /\ Route(app) = "panel" =>
               \A r \in Results(DeleteKey) :
                   /\ r.calls = <<>>
                   /\ r.res = "Ok"
                   /\ IF app.focused_panel = "Remotes" /\ app.remotes # <<>>
                      THEN r.app =
                             [app EXCEPT
                                !.confirm_modal = Some([confirmed |-> FALSE]),
                                !.pending_delete_remote =
                                    Some(app.remotes[app.remotes_selected + 1])]
                      ELSE r.app = app

\* C27 witness: Enter on the confirmed modal called delete_remote for the
\* pending name "a", once, and the reloaded list holds "s" alone.
C27_Witness ==
    /\ route = "confirm"
    /\ calls = <<Call("delete_remote", <<"a">>, "Ok"),
                 Call("list_remotes", <<>>, "Ok")>>
    /\ app.remotes = <<<<"s">>>>
    /\ app.remotes_selected = 0
    /\ app.confirm_modal = None
    /\ app.pending_delete_remote = None

\* C28: when the initial load of the remote list is denied (Unauthorized),
\* start opens the Login modal and enters the run loop; when it fails
\* otherwise, start opens the Login modal and enters the run loop exactly
\* in the modes RequireOnStartup and Both, and in the mode OnDemand returns
\* the error without entering the loop; when it succeeds no modal is open.
C28_StartupLogin ==
    /\ pc = "start" =>
          \A r \in start(app) :
              LET reply == r.calls[1].out
                  mode == app.auth_manager.auth_mode
                  prompted == r.res = "Ok"
                                 /\ r.app.login_modal = Some(new_basic)
                                 /\ ModalCount(r.app) = 1
              IN /\ Len(r.calls) = 1 /\ r.calls[1].op = "list_remotes"
                 /\ reply = "Ok" => r.res = "Ok" /\ ModalCount(r.app) = 0
                 /\ reply = "Unauthorized" => prompted
                 /\ (reply = "Other"
                       /\ mode \in {"RequireOnStartup", "Both"}) => prompted
                 /\ (reply = "Other" /\ mode = "OnDemand") =>
                        r.res = "Other" /\ ModalCount(r.app) = 0
    /\ (pc # "start" /\ route = "none") =>
          /\ pc = "exit" <=> result # "Ok"
          /\ result # "Ok" <=>
                 /\ calls[1].out = "Other"
                 /\ app.auth_manager.auth_mode = "OnDemand"
          /\ IsSome(app.login_modal) <=>
                 \/ calls[1].out = "Unauthorized"
                 \/ /\ calls[1].out = "Other"
                    /\ app.auth_manager.auth_mode # "OnDemand"

\* C28 witness: in the mode RequireOnStartup the initial load failed for a
\* reason other than authorization; the Login modal is open and the run
\* loop is entered.
C28_Witness ==
    /\ route = "none"
    /\ pc = "loop"
    /\ calls = <<Call("list_remotes", <<>>, "Other")>>
    /\ app.auth_manager.auth_mode = "RequireOnStartup"
    /\ app.login_modal = Some(new_basic)

Esc == KeyOf("Esc", "")

\* C29: Esc pressed while a modal is open leaves no modal open, issues no
\* daemon call, returns Ok and leaves running, focused_panel,
\* current_remote, current_path, remotes, files, both selections and the
\* client's credentials unchanged.
C29_EscClosesModal ==
    (Handling /\ ModalCount(app) >= 1) =>
        \A r \in Results(Esc) :
            /\ ModalCount(r.app) = 0
            /\ r.calls = <<>>
            /\ r.res = "Ok"
            /\ r.keyring = keyring
            /\ r.app.running = app.running
            /\ r.app.focused_panel = app.focused_panel
            /\ r.app.current_remote = app.current_remote
            /\ r.app.current_path = app.current_path
            /\ r.app.remotes = app.remotes
            /\ r.app.files = app.files
            /\ r.app.remotes_selected = app.remotes_selected
            /\ r.app.files_selected = app.files_selected
            /\ r.app.client = app.client

\* C29 witness: Esc closed the Confirm modal opened on a remote: no modal
\* is open, nothing is pending, no call was made and the loop goes on.
C29_Witness ==
    /\ route = "confirm"
    /\ pc = "loop"
    /\ calls = <<>>
    /\ ModalCount(app) = 0
    /\ app.pending_delete_remote = None
    /\ app.remotes # <<>>

\* The probe of a Login submission was made and failed.
ProbeFailed(r) ==
    /\ r.calls # <<>>
    /\ r.calls[1].op = "list_remotes"
    /\ r.calls[1].out # "Ok"

\* C30 (as claimed): after a Login submission whose probe fails, the
\* AuthManager's daemon_credentials and the keyring are as they were before
\* the submission.
C30_RejectedNotRetained ==
    (Handling /\ IsSome(app.login_modal)) =>
        \A r \in Results(Enter) :
            ProbeFailed(r) =>
                /\ r.app.auth_manager.daemon_credentials =
                       app.auth_manager.daemon_credentials
                /\ r.keyring = keyring

\* C30, what the code does: after a failed probe the client holds no
\* credentials, the AuthManager holds the rejected ones, and the keyring
\* holds them too when its write succeeded.
C30_RejectedKeptByManager ==
    (Handling /\ IsSome(app.login_modal)) =>
        \A r \in Results(Enter) :
            ProbeFailed(r) =>
                LET rejected == LoginCredentials(Unwrap(app.login_modal))
                IN /\ r.app.client.credentials = None
                   /\ r.app.auth_manager.daemon_credentials = Some(rejected)
                   /\ r.store = "Ok" =>
                          <<keyring_key(rejected), rejected>> \in r.keyring
                   /\ r.store # "Ok" => r.keyring = keyring

====
